---- MODULE Spec2Model ----
(***************************************************************************)
(* A model of react-toastify's imperative dispatch core                    *)
(* (src/react-toastify/src/core/toast.ts): the process-wide container      *)
(* registry, the pending queue, the deferred update and the lazy mount,    *)
(* together with the display surface, the event bus and the notification   *)
(* lifecycle the dispatcher talks to.                                      *)
(*                                                                         *)
(* JavaScript values are encoded as strings: "undefined", "null", "NaN",   *)
(* "num:<n>" for a number, "str:<s>" for a string, "gen:<n>" for the n-th  *)
(* string produced by generateToastId.  A JavaScript object is a function  *)
(* from its own keys to values; an optional argument is a sequence of      *)
(* length 0 (not passed) or 1 (passed).                                    *)
(***************************************************************************)
EXTENDS Integers, Sequences, FiniteSets, TLC

VARIABLES
    \* ---- toast.ts module state (lines 84-89)
    containers,        \* Map: registry key -> surface
    latestInstance,    \* registry key of the last mounted surface, or "null"
    containerDomNode,  \* 0 (null) or the lazily created DOM node
    containerConfig,   \* props stored by toast.configure
    queue,             \* pending queue entries
    lazy,              \* lazy mount armed
    \* ---- environment of the module
    nextGen,           \* how many identifiers generateToastId has produced
    timers,            \* setTimeout(fn, 0) callbacks not yet run, FIFO
    bodyChildren,      \* DOM nodes currently children of document.body
    mounted,           \* display surfaces currently mounted
    subscribed,        \* surfaces whose show/clear listeners are on the bus
    collection,        \* surface -> its collection: property key -> record
    emitted,           \* the bus events emitted by the last step, in order
    threw,             \* whether the last step raised an exception
    ncalls,            \* show/update/done calls made so far
    last,              \* the last step: what ran and what it was given
    \* ---- the DID_MOUNT listener, when its replay is followed emit by emit
    drainPos,          \* 0 (not running) or the queue index forEach visits next
    drainLen,          \* the length of the queue when forEach started
    inListener,        \* a listener called by the last emit is still running
    \* ---- the arguments of the show calls, when one call is studied
    inp,
    \* ---- one notification's lifecycle (Toast component)
    tprops,            \* autoClose (0: disabled), pauseOnHover, pauseOnFocusLoss,
                       \* progress (Undefined: not controlled)
    tstate,            \* "Unmounted", "Inert" (no autoclose), "Running",
                       \* "Paused", "Closing", "Closed"
    hovered,           \* the pointer is over the notification
    blurred,           \* the window has lost focus
    now,               \* time units since the notification was rendered
    unpaused           \* time units the countdown has run

coreVars == <<containers, latestInstance, containerDomNode, containerConfig,
              queue, lazy, nextGen, timers, bodyChildren, mounted, subscribed,
              collection, emitted, threw, ncalls, last>>
drainVars == <<drainPos, drainLen, inListener>>
pureVars == <<inp>>
toastVars == <<tprops, tstate, hovered, blurred, now, unpaused>>
vars == <<coreVars, drainVars, pureVars, toastVars>>

-----------------------------------------------------------------------------
(* Bounds of the model *)

\* show, update and done calls made in one run.  Every queue entry, deferred
\* callback, generated identifier and lazily created node comes from one of
\* them, so this bounds the queue, the timers and both counters as well.
MaxCalls == 2

-----------------------------------------------------------------------------
(* JavaScript values *)

Undefined == "undefined"
Null == "null"

GenId(n) == "gen:" \o ToString(n)

GenIds == {GenId(n) : n \in 1..(MaxCalls + 1)}

\* typeof v === 'string'
isStr(v) == v \in {"str:", "str:a", "str:b", "str:c"} \cup GenIds

\* typeof v === 'number'
isNum(v) == v \in {"num:0", "num:1", "NaN"}

isNaN(v) == v = "NaN"

\* ToBoolean(v)
Truthy(v) == v \notin {Undefined, Null, "NaN", "num:0", "str:", "false"}

\* a || b
Or(a, b) == IF Truthy(a) THEN a ELSE b

\* o[k] on an object: undefined for a key the object does not own
Get(o, k) == IF k \in DOMAIN o THEN o[k] ELSE Undefined

\* { ...a, ...b }
Spread(a, b) ==
    [k \in DOMAIN a \cup DOMAIN b |-> IF k \in DOMAIN b THEN b[k] ELSE a[k]]

\* delete o[k]
Delete(o, k) == [x \in DOMAIN o \ {k} |-> o[x]]

EmptyObj == [k \in {} |-> Undefined]

\* an optional object argument: not passed, or the object
None == <<>>
Some(o) == <<o>>

\* { ...options } where options may be undefined
SpreadOpt(mo) == IF mo = None THEN EmptyObj ELSE mo[1]

\* options && options.k
AndGet(mo, k) == IF mo = None THEN Undefined ELSE Get(mo[1], k)

\* ToPropertyKey(v): the string an object is indexed by
ToKey(v) ==
    CASE v = "num:0" -> "0"
      [] v = "num:1" -> "1"
      [] v = "str:" -> ""
      [] v = "str:a" -> "a"
      [] v = "str:b" -> "b"
      [] v = "str:c" -> "c"
      [] OTHER -> v

-----------------------------------------------------------------------------
(* TYPE *)

TYPE_DEFAULT == "str:default"

\* the members of TYPE other than DEFAULT, by shortcut name; warn is warning
ShortcutType(name) ==
    CASE name = "success" -> "str:success"
      [] name = "info" -> "str:info"
      [] name = "warning" -> "str:warning"
      [] name = "warn" -> "str:warning"
      [] name = "error" -> "str:error"
      [] OTHER -> TYPE_DEFAULT

canUseDom == TRUE

-----------------------------------------------------------------------------
(* Display surfaces (ToastContainer instances) and the event bus *)

Surfaces == {"S1", "S2", "S3"}

\* the containerId prop of each surface: S1 and S2 share one, S3 has none
ContainerIdOf(s) ==
    CASE s = "S1" -> "str:c"
      [] s = "S2" -> "str:c"
      [] OTHER -> Undefined

EmptyMap == [k \in {} |-> Undefined]

\* Map.prototype.get
MapGet(m, k) == IF k \in DOMAIN m THEN m[k] ELSE Undefined

\* Map.prototype.set
MapSet(m, k, v) == [x \in DOMAIN m \cup {k} |-> IF x = k THEN v ELSE m[x]]

\* Map.prototype.delete
MapDelete(m, k) == [x \in DOMAIN m \ {k} |-> m[x]]

ShowEvent(content, options, to) ==
    [action |-> "show", content |-> content, options |-> options, to |-> to]

ClearEvent(id, to) ==
    [action |-> "clear", content |-> id, options |-> EmptyObj, to |-> to]

\* a surface takes a show that names no surface, or names its own identifier
BelongsTo(s, options) ==
    \/ ~Truthy(Get(options, "containerId"))
    \/ Get(options, "containerId") = ContainerIdOf(s)

\* the surface's show listener: insert or replace the record under its
\* identifier, retiring the record named by staleToastId
OnShow(s, coll, content, options) ==
    IF ~BelongsTo(s, options) THEN coll
    ELSE LET kept == IF "staleToastId" \in DOMAIN options
                     THEN Delete(coll, ToKey(options["staleToastId"]))
                     ELSE coll
             rec == [content |-> content, options |-> options]
         IN  MapSet(kept, ToKey(Get(options, "toastId")), rec)

\* the surface's clear listener: one record, or all of them
OnClear(s, coll, id) ==
    IF id = Undefined THEN EmptyMap ELSE Delete(coll, ToKey(id))

\* the surface's membership test
isToastActive(s, id) == ToKey(id) \in DOMAIN collection[s]

\* eventManager.emit: every listener of the action runs, synchronously
Deliver(coll, ev) ==
    [s \in Surfaces |->
        IF s \notin ev.to THEN coll[s]
        ELSE IF ev.action = "show"
             THEN OnShow(s, coll[s], ev.content, ev.options)
             ELSE OnClear(s, coll[s], ev.content)]

RECURSIVE DeliverAll(_, _)
DeliverAll(coll, evs) ==
    IF evs = <<>> THEN coll
    ELSE DeliverAll(Deliver(coll, Head(evs)), Tail(evs))

-----------------------------------------------------------------------------
(* toast.ts *)

isAnyContainerMounted == Cardinality(DOMAIN containers) > 0

\* getContainer without the fallback to the latest surface
getContainer_NoLatest(containerId) ==
    IF ~isAnyContainerMounted THEN Null
    ELSE MapGet(containers, containerId)

getContainer(containerId) ==
    IF ~isAnyContainerMounted THEN Null
    ELSE IF ~Truthy(containerId) THEN MapGet(containers, latestInstance)
    ELSE MapGet(containers, containerId)

\* getToast that looks the record up in every registered surface
getToast_AnySurface(toastId, options) ==
    IF \E k \in DOMAIN containers :
          ToKey(toastId) \in DOMAIN collection[containers[k]]
    THEN Some(collection[containers[
                 CHOOSE k \in DOMAIN containers :
                    ToKey(toastId) \in DOMAIN collection[containers[k]]]]
                 [ToKey(toastId)])
    ELSE None

\* None stands for null
getToast(toastId, options) ==
    LET container == getContainer(Get(options, "containerId"))
    IN  IF ~Truthy(container) THEN None
        ELSE IF ToKey(toastId) \notin DOMAIN collection[container] THEN None
        ELSE Some(collection[container][ToKey(toastId)])

generateToastId == GenId(nextGen + 1)

\* getToastId without the isNaN test
keepsToastId_NaN(mo) ==
    /\ mo # None
    /\ \/ isStr(Get(mo[1], "toastId"))
       \/ isNum(Get(mo[1], "toastId"))

\* whether getToastId returns the caller's toastId
keepsToastId(mo) ==
    /\ mo # None
    /\ \/ isStr(Get(mo[1], "toastId"))
       \/ isNum(Get(mo[1], "toastId")) /\ ~isNaN(Get(mo[1], "toastId"))

getToastId(mo) ==
    IF keepsToastId(mo) THEN mo[1]["toastId"] ELSE generateToastId

mergeOptions(mo, type) ==
    Spread(Spread(SpreadOpt(mo), "type" :> type), "toastId" :> getToastId(mo))

\* the options toast(content, options) dispatches
toastOptions(mo) == mergeOptions(mo, Or(AndGet(mo, "type"), TYPE_DEFAULT))

\* a shortcut that forces its type over the caller's
shortcutOptions_Forced(name, mo) == mergeOptions(mo, ShortcutType(name))

\* the options toast[name](content, options) dispatches
shortcutOptions(name, mo) ==
    mergeOptions(mo, Or(AndGet(mo, "type"), ShortcutType(name)))

isActive(id) ==
    /\ Cardinality(DOMAIN containers) > 0
    /\ \E k \in DOMAIN containers : isToastActive(containers[k], id)

\* the identifiers the calls of the model can make active
AllIds == {"str:a", "str:b", "num:0"} \cup GenIds

\* the identifiers isActive answers true for
ActiveIds == {id \in AllIds : isActive(id)}

\* the record of a step: the operation and the identifier it was given or
\* resolved.  A dismiss also records the identifiers that were active when
\* it started, an update whether it follows the show of its identifier.
Step(op, id) ==
    [op |-> op, id |-> id, active |-> {}, afterShow |-> FALSE,
     showTook |-> FALSE]

\* dispatchToast that also queues the show it emits
dispatchToast_QueuesToo(content, options) ==
    /\ queue' = Append(queue, [action |-> "show", content |-> content,
                               options |-> options])
    /\ IF isAnyContainerMounted
       THEN /\ emitted' = <<ShowEvent(content, options, subscribed)>>
            /\ collection' = Deliver(collection, ShowEvent(content, options, subscribed))
            /\ UNCHANGED <<lazy, containerDomNode, bodyChildren>>
       ELSE /\ emitted' = <<>>
            /\ IF lazy /\ canUseDom
               THEN /\ lazy' = FALSE
                    /\ containerDomNode' = containerDomNode + 1
                    /\ bodyChildren' = bodyChildren \cup {containerDomNode + 1}
               ELSE UNCHANGED <<lazy, containerDomNode, bodyChildren>>
            /\ UNCHANGED collection

dispatchToast(content, options) ==
    IF isAnyContainerMounted
    THEN /\ emitted' = <<ShowEvent(content, options, subscribed)>>
         /\ collection' = Deliver(collection, ShowEvent(content, options, subscribed))
         /\ UNCHANGED <<queue, lazy, containerDomNode, bodyChildren>>
    ELSE /\ queue' = Append(queue, [action |-> "show", content |-> content,
                                    options |-> options])
         /\ emitted' = <<>>
         /\ IF lazy /\ canUseDom
            THEN /\ lazy' = FALSE
                 /\ containerDomNode' = containerDomNode + 1
                 /\ bodyChildren' = bodyChildren \cup {containerDomNode + 1}
            ELSE UNCHANGED <<lazy, containerDomNode, bodyChildren>>
         /\ UNCHANGED collection

\* what every show call checks before it runs in this model
Toast(content, mo) ==
    /\ ncalls < MaxCalls
    /\ dispatchToast(content, toastOptions(mo))
    /\ nextGen' = IF keepsToastId(mo) THEN nextGen ELSE nextGen + 1
    /\ ncalls' = ncalls + 1
    /\ last' = Step("toast", toastOptions(mo)["toastId"])
    /\ threw' = FALSE
    /\ UNCHANGED <<containers, latestInstance, containerConfig, timers,
                   mounted, subscribed>>
    /\ UNCHANGED <<drainVars, pureVars, toastVars>>

Shortcut(name, content, mo) ==
    /\ ncalls < MaxCalls
    /\ dispatchToast(content, shortcutOptions(name, mo))
    /\ nextGen' = IF keepsToastId(mo) THEN nextGen ELSE nextGen + 1
    /\ ncalls' = ncalls + 1
    /\ last' = Step("shortcut", shortcutOptions(name, mo)["toastId"])
    /\ threw' = FALSE
    /\ UNCHANGED <<containers, latestInstance, containerConfig, timers,
                   mounted, subscribed>>
    /\ UNCHANGED <<drainVars, pureVars, toastVars>>

\* dismiss that emits 'clear' without asking whether a surface is registered
Dismiss_Unguarded(id) ==
    /\ emitted' = <<ClearEvent(id, subscribed)>>
    /\ collection' = Deliver(collection, ClearEvent(id, subscribed))
    /\ last' = [Step("dismiss", id) EXCEPT !.active = ActiveIds]
    /\ threw' = FALSE
    /\ UNCHANGED <<containers, latestInstance, containerDomNode,
                   containerConfig, queue, lazy, nextGen, timers, bodyChildren,
                   mounted, subscribed, ncalls>>
    /\ UNCHANGED <<drainVars, pureVars, toastVars>>

\* dismiss that emits 'clear' only when it is given an identifier
Dismiss_OnlyById(id) ==
    /\ IF isAnyContainerMounted /\ Truthy(id)
       THEN /\ emitted' = <<ClearEvent(id, subscribed)>>
            /\ collection' = Deliver(collection, ClearEvent(id, subscribed))
       ELSE /\ emitted' = <<>>
            /\ UNCHANGED collection
    /\ last' = [Step("dismiss", id) EXCEPT !.active = ActiveIds]
    /\ threw' = FALSE
    /\ UNCHANGED <<containers, latestInstance, containerDomNode,
                   containerConfig, queue, lazy, nextGen, timers, bodyChildren,
                   mounted, subscribed, ncalls>>
    /\ UNCHANGED <<drainVars, pureVars, toastVars>>

Dismiss(id) ==
    /\ IF isAnyContainerMounted
       THEN /\ emitted' = <<ClearEvent(id, subscribed)>>
            /\ collection' = Deliver(collection, ClearEvent(id, subscribed))
       ELSE /\ emitted' = <<>>
            /\ UNCHANGED collection
    /\ last' = [Step("dismiss", id) EXCEPT !.active = ActiveIds]
    /\ threw' = FALSE
    /\ UNCHANGED <<containers, latestInstance, containerDomNode,
                   containerConfig, queue, lazy, nextGen, timers, bodyChildren,
                   mounted, subscribed, ncalls>>
    /\ UNCHANGED <<drainVars, pureVars, toastVars>>

\* whether update(toastId, options) is called right after the show that
\* returned toastId, in the same tick
AfterShow(toastId) == last.op \in {"toast", "shortcut"} /\ last.id = toastId

\* whether that show was emitted to, and taken by, the surface the lookup of
\* update(toastId, options) selects
ShowTook(toastId, options) ==
    /\ AfterShow(toastId)
    /\ emitted # <<>>
    /\ LET container == getContainer(Get(options, "containerId"))
       IN  /\ Truthy(container)
           /\ container \in emitted[1].to
           /\ BelongsTo(container, emitted[1].options)

\* the setTimeout(..., 0) of toast.update: the callback is only scheduled
Update(toastId, mo) ==
    /\ ncalls < MaxCalls
    /\ last' = [Step("update", toastId) EXCEPT
                   !.afterShow = AfterShow(toastId),
                   !.showTook = ShowTook(toastId, SpreadOpt(mo))]
    /\ timers' = Append(timers, [toastId |-> toastId, options |-> SpreadOpt(mo)])
    /\ ncalls' = ncalls + 1
    /\ emitted' = <<>>
    /\ threw' = FALSE
    /\ UNCHANGED <<containers, latestInstance, containerDomNode,
                   containerConfig, queue, lazy, nextGen, bodyChildren, mounted,
                   subscribed, collection>>
    /\ UNCHANGED <<drainVars, pureVars, toastVars>>

Done(id) == Update(id, Some("progress" :> "num:1"))

\* nextOptions with toastId forced to the identifier update was called with
nextOptionsOf_KeepsId(old, toastId, options) ==
    LET merged == Spread(Spread(old, options), "toastId" :> toastId)
        marked == IF ~Truthy(Get(options, "toastId"))
                     \/ Get(options, "toastId") = toastId
                  THEN Spread(merged, "updateId" :> generateToastId)
                  ELSE Spread(merged, "staleToastId" :> toastId)
    IN  Delete(marked, "render")

\* the options the deferred callback of update(toastId, options) dispatches
nextOptionsOf(old, toastId, options) ==
    LET merged == Spread(Spread(old, options),
                         "toastId" :> Or(Get(options, "toastId"), toastId))
        marked == IF ~Truthy(Get(options, "toastId"))
                     \/ Get(options, "toastId") = toastId
                  THEN Spread(merged, "updateId" :> generateToastId)
                  ELSE Spread(merged, "staleToastId" :> toastId)
    IN  Delete(marked, "render")

\* the content the deferred callback dispatches
nextContentOf(old, oldContent, options) ==
    IF Get(Spread(old, options), "render") # Undefined
    THEN Get(Spread(old, options), "render")
    ELSE oldContent

\* whether the deferred callback stamps an updateId
stampsUpdateId(toastId, options) ==
    ~Truthy(Get(options, "toastId")) \/ Get(options, "toastId") = toastId

\* the event loop runs the oldest deferred update callback
Tick ==
    /\ timers # <<>>
    /\ LET toastId == Head(timers).toastId
           options == Head(timers).options
           found == getToast(toastId, options)
       IN  IF found # None
           THEN /\ dispatchToast(
                       nextContentOf(found[1].options, found[1].content, options),
                       nextOptionsOf(found[1].options, toastId, options))
                /\ nextGen' = IF stampsUpdateId(toastId, options)
                              THEN nextGen + 1 ELSE nextGen
           ELSE /\ emitted' = <<>>
                /\ UNCHANGED <<queue, lazy, containerDomNode, bodyChildren,
                               collection, nextGen>>
    /\ timers' = Tail(timers)
    /\ last' = [Step("tick", Undefined) EXCEPT
                   !.afterShow = /\ last.op = "update" /\ Len(timers) = 1
                                 /\ last.afterShow /\ last.showTook]
    /\ threw' = FALSE
    /\ UNCHANGED <<containers, latestInstance, containerConfig, mounted,
                   subscribed, ncalls>>
    /\ UNCHANGED <<drainVars, pureVars, toastVars>>

Configure(config) ==
    /\ lazy' = TRUE
    /\ containerConfig' = config
    /\ last' = Step("configure", Undefined)
    /\ emitted' = <<>>
    /\ threw' = FALSE
    /\ UNCHANGED <<containers, latestInstance, containerDomNode, queue,
                   nextGen, timers, bodyChildren, mounted, subscribed,
                   collection, ncalls>>
    /\ UNCHANGED <<drainVars, pureVars, toastVars>>

\* the registry key of a surface: containerInstance.containerId || containerInstance
RegistryKey(s) == Or(ContainerIdOf(s), s)

\* the queue as the events its replay emits to the listeners `to`
Replay(q, to) ==
    [i \in 1..Len(q) |-> [action |-> q[i].action, content |-> q[i].content,
                          options |-> q[i].options, to |-> to]]

\* the DID_MOUNT listener without the reset of the queue
DidMount_KeepsQueue(containerInstance, subs) ==
    /\ latestInstance' = RegistryKey(containerInstance)
    /\ containers' = MapSet(containers, RegistryKey(containerInstance),
                            containerInstance)
    /\ emitted' = Replay(queue, subs)
    /\ collection' = DeliverAll(collection, Replay(queue, subs))
    /\ queue' = queue

\* the DID_MOUNT listener, run with the listeners `subs` on the bus.  ACTION
\* is read as the action table of ../utils, ACTION.SHOW and ACTION.CLEAR
\* naming the 'show' and 'clear' actions that dispatchToast and dismiss emit.
DidMount(containerInstance, subs) ==
    /\ latestInstance' = RegistryKey(containerInstance)
    /\ containers' = MapSet(containers, RegistryKey(containerInstance),
                            containerInstance)
    /\ emitted' = Replay(queue, subs)
    /\ collection' = DeliverAll(collection, Replay(queue, subs))
    /\ queue' = <<>>

\* a surface mounts: it subscribes to show and clear, then emits DID_MOUNT
Mount(s) ==
    /\ s \notin mounted
    /\ mounted' = mounted \cup {s}
    /\ subscribed' = subscribed \cup {s}
    /\ DidMount(s, subscribed \cup {s})
    /\ last' = Step("mount", Undefined)
    /\ threw' = FALSE
    /\ UNCHANGED <<containerDomNode, containerConfig, lazy, nextGen, timers,
                   bodyChildren, ncalls>>
    /\ UNCHANGED <<drainVars, pureVars, toastVars>>

\* the WILL_UNMOUNT listener; containerInstance is Undefined when the event
\* carries none.  `subs` are the listeners on the bus when it runs.
WillUnmount(containerInstance, subs) ==
    /\ containers' = IF Truthy(containerInstance)
                     THEN MapDelete(containers, RegistryKey(containerInstance))
                     ELSE EmptyMap
    /\ subscribed' = IF Cardinality(DOMAIN containers') = 0 THEN {} ELSE subs
    /\ IF canUseDom /\ containerDomNode # 0
       THEN IF containerDomNode \in bodyChildren
            THEN /\ bodyChildren' = bodyChildren \ {containerDomNode}
                 /\ threw' = FALSE
            ELSE /\ threw' = TRUE   \* removeChild: not a child of the node
                 /\ UNCHANGED bodyChildren
       ELSE /\ threw' = FALSE
            /\ UNCHANGED bodyChildren

\* a surface unmounts: it drops its listeners and emits WILL_UNMOUNT
Unmount(s) ==
    /\ s \in mounted
    /\ mounted' = mounted \ {s}
    /\ WillUnmount(s, subscribed \ {s})
    /\ collection' = [collection EXCEPT ![s] = EmptyMap]
    /\ last' = Step("unmount", Undefined)
    /\ emitted' = <<>>
    /\ UNCHANGED <<latestInstance, containerDomNode, containerConfig, queue,
                   lazy, nextGen, timers, ncalls>>
    /\ UNCHANGED <<drainVars, pureVars, toastVars>>

\* WILL_UNMOUNT emitted without a surface: teardown of the whole registry
UnmountAll ==
    /\ WillUnmount(Undefined, subscribed)
    /\ last' = Step("unmountAll", Undefined)
    /\ emitted' = <<>>
    /\ UNCHANGED <<latestInstance, containerDomNode, containerConfig, queue,
                   lazy, nextGen, timers, mounted, collection, ncalls>>
    /\ UNCHANGED <<drainVars, pureVars, toastVars>>


-----------------------------------------------------------------------------
(* The dispatcher with its surfaces: inputs, initial state, next-state *)

Contents == {"hi"}

\* the options objects the calls of the model pass to toast
ShowOptions ==
    { None,
      Some("toastId" :> "str:a"),
      Some("toastId" :> "str:a" @@ "containerId" :> "str:c") }

ShortcutNames == {"success", "info", "warning", "warn", "error"}

\* the shortcut calls of the model
CalledShortcuts == {"error"}
ShortcutOptions == { Some("toastId" :> "str:b") }

\* the identifiers the dismiss calls of the model address; Undefined is
\* dismiss()
DismissIds == {"str:a", Undefined}

\* the options objects the calls of the model pass to toast.update
UpdateOptions ==
    { None,
      Some("toastId" :> "str:b"),
      Some("toastId" :> "num:0"),
      Some("render" :> "yo") }

\* the update calls of the model: the identifier and the options
UpdateCalls == ({"str:a"} \X UpdateOptions) \cup {<<"str:b", None>>}

\* the DID_MOUNT listener is not running
DrainIdle ==
    /\ drainPos = 0
    /\ drainLen = 0
    /\ inListener = FALSE

CoreInit ==
    /\ containers = EmptyMap
    /\ latestInstance = Null
    /\ containerDomNode = 0
    /\ containerConfig = EmptyObj
    /\ queue = <<>>
    /\ lazy = FALSE
    /\ nextGen = 0
    /\ timers = <<>>
    /\ bodyChildren = {}
    /\ mounted = {}
    /\ subscribed = {}
    /\ collection = [s \in Surfaces |-> EmptyMap]
    /\ emitted = <<>>
    /\ threw = FALSE
    /\ ncalls = 0
    /\ last = [op |-> "init", id |-> Undefined, active |-> {},
               afterShow |-> FALSE, showTook |-> FALSE]
    /\ DrainIdle

PureIdle == inp = None

ToastIdle ==
    /\ tprops = [autoClose |-> 0, pauseOnHover |-> FALSE,
                 pauseOnFocusLoss |-> FALSE, progress |-> Undefined]
    /\ tstate = "Unmounted"
    /\ hovered = FALSE
    /\ blurred = FALSE
    /\ now = 0
    /\ unpaused = 0

Init == CoreInit /\ PureIdle /\ ToastIdle

\* the steps that do not involve the lazy mount
CoreNext ==
    \/ \E s \in Surfaces : Mount(s)
    \/ \E s \in Surfaces : Unmount(s)
    \/ UnmountAll
    \/ \E c \in Contents, mo \in ShowOptions : Toast(c, mo)
    \/ \E n \in CalledShortcuts, c \in Contents, mo \in ShortcutOptions :
          Shortcut(n, c, mo)
    \/ \E id \in DismissIds : Dismiss(id)
    \/ \E u \in UpdateCalls : Update(u[1], u[2])
    \/ Done("str:a")
    \/ Tick

Next == CoreNext

\* an application that declares its containers and never calls configure
Spec == Init /\ [][Next]_vars

\* an application that also calls configure, arming the lazy mount
LazyNext == CoreNext \/ Configure("position" :> "str:top")

SpecLazy == Init /\ [][LazyNext]_vars

-----------------------------------------------------------------------------
(* Properties of the dispatcher *)

\* a show call of the model that could have produced the queue entry e
IsShowCallOf(e) ==
    /\ e.action = "show"
    /\ \/ \E c \in Contents, mo \in ShowOptions :
             e.content = c /\ e.options = toastOptions(mo)
       \/ \E n \in CalledShortcuts, c \in Contents, mo \in ShortcutOptions :
             e.content = c /\ e.options = shortcutOptions(n, mo)

\* C1: every show issued while no surface is registered is appended to the
\* pending queue with its content and options; the queue changes in no other
\* way until a surface mounts; the mount emits every entry, in call order,
\* as a 'show' to that surface alone, which takes each entry in its scope,
\* and leaves the queue empty, so no later mount replays an entry again.
C1_QueuedShowsReplayedOnce ==
    [][ /\ (last'.op \in {"toast", "shortcut"} /\ ~isAnyContainerMounted) =>
              /\ Len(queue') = Len(queue) + 1
              /\ SubSeq(queue', 1, Len(queue)) = queue
              /\ IsShowCallOf(queue'[Len(queue')])
              /\ queue'[Len(queue')].options["toastId"] = last'.id
              /\ emitted' = <<>>
        /\ \A s \in Surfaces : (s \notin mounted /\ s \in mounted') =>
              /\ emitted' = Replay(queue, {s})
              /\ queue' = <<>>
              /\ \A i \in 1..Len(queue) :
                    /\ queue[i].action = "show"
                    /\ BelongsTo(s, queue[i].options) =>
                          ToKey(queue[i].options["toastId"]) \in DOMAIN collection'[s]
        /\ (queue' # queue) =>
              \/ last'.op \in {"toast", "shortcut"} /\ ~isAnyContainerMounted
              \/ last'.op = "mount"
      ]_vars

\* C1 witness: a surface has just mounted and received two queued shows, in
\* the order of the calls (the generated identifier first), and holds both.
C1_Witness ==
    /\ last.op = "mount"
    /\ Len(emitted) = 2
    /\ queue = <<>>
    /\ \E s \in Surfaces :
          /\ mounted = {s}
          /\ emitted[1].to = {s} /\ emitted[2].to = {s}
          /\ emitted[1].options["toastId"] = GenId(1)
          /\ emitted[2].options["toastId"] = "str:a"
          /\ {"gen:1", "a"} \subseteq DOMAIN collection[s]

\* C2 (as claimed): isActive(id) is false whenever the registry is empty, and
\* otherwise true exactly when some mounted surface's collection holds id.
C2_IsActiveIffMountedHolds ==
    \A id \in AllIds :
        /\ ~isAnyContainerMounted => ~isActive(id)
        /\ isAnyContainerMounted =>
              (isActive(id) <=> \E s \in mounted : isToastActive(s, id))

\* C3: a dismiss leaves the pending queue as it is; with no surface
\* registered it emits nothing and changes no collection, and with a surface
\* registered it emits exactly one 'clear' carrying the identifier it was
\* given (none for dismiss()) to the listeners on the bus.
C3_DismissNoOpWithoutSurface ==
    [][ last'.op = "dismiss" =>
          /\ queue' = queue
          /\ IF isAnyContainerMounted
             THEN emitted' = <<ClearEvent(last'.id, subscribed)>>
             ELSE emitted' = <<>> /\ collection' = collection
      ]_vars

\* C3 witness: a dismiss has just run with no surface registered and a show
\* still queued, and emitted nothing.
C3_Witness ==
    /\ last.op = "dismiss"
    /\ ~isAnyContainerMounted
    /\ Len(queue) > 0
    /\ emitted = <<>>

C5_UpdateMovesIdentifier ==
    [][ \A id \in {"str:a", "str:b"}, newId \in {"str:b", "num:0"} :
          ( /\ newId # id
            /\ timers # <<>>
            /\ Head(timers) = [toastId |-> id, options |-> ("toastId" :> newId)]
            /\ last'.op = "tick"
            /\ isActive(id)
            /\ getToast(id, "toastId" :> newId) # None )
          => (~isActive(id))' /\ (isActive(newId))'
      ]_vars

-----------------------------------------------------------------------------
(* One show call studied over its arguments *)

\* the toastId values a caller may pass: strings, numbers, and other types
PureToastIds == {"str:a", "str:", "num:0", "num:1", "NaN", Null, "true"}

PureTypes == {TYPE_DEFAULT, "str:info", "str:error"}

\* an object that owns key k with each value of vs, or does not own k
Optional(k, vs) == {EmptyObj} \cup {k :> v : v \in vs}

PureOptions ==
    {None} \cup
    { Some(Spread(Spread(a, b), c)) :
        a \in Optional("toastId", PureToastIds),
        b \in Optional("type", PureTypes),
        c \in Optional("autoClose", {"num:1"}) }

\* "toast" is toast(content, options); the others are its shortcuts
PureKinds == {"toast"} \cup ShortcutNames

PureInit ==
    /\ CoreInit
    /\ ToastIdle
    /\ inp \in [kind : PureKinds, content : Contents, mo : PureOptions]

CallToast == inp.kind = "toast" /\ Toast(inp.content, inp.mo)

CallShortcut == inp.kind # "toast" /\ Shortcut(inp.kind, inp.content, inp.mo)

PureNext == CallToast \/ CallShortcut

\* the same show call made MaxCalls times with no surface mounted
SpecPure == PureInit /\ [][PureNext]_vars

\* the entry the last show call queued
Dispatched == queue[Len(queue)]

\* an identifier no earlier call of the run was given or returned
Fresh(id) ==
    /\ id \in GenIds
    /\ \A i \in 1..Len(queue) : queue[i].options["toastId"] # id

\* C7 (as claimed): a show call returns the identifier stamped on the options
\* it dispatches; that identifier is the caller's toastId exactly when the
\* caller's toastId is a non-empty string or a number other than NaN, and a
\* freshly generated one otherwise.
C7_ResolvesNonEmptyStringOrNumber ==
    [][ last'.op \in {"toast", "shortcut"} =>
          LET given == AndGet(inp.mo, "toastId")
          IN  /\ Dispatched'.options["toastId"] = last'.id
              /\ IF \/ isStr(given) /\ given # "str:"
                    \/ isNum(given) /\ ~isNaN(given)
                 THEN last'.id = given
                 ELSE Fresh(last'.id)
      ]_vars

\* C7 (amended): the same, with the empty string kept like any other string:
\* the identifier is the caller's toastId exactly when that is a string or a
\* number other than NaN, and a freshly generated one otherwise.
C7_ResolvesStringOrNumber ==
    [][ last'.op \in {"toast", "shortcut"} =>
          LET given == AndGet(inp.mo, "toastId")
          IN  /\ Dispatched'.options["toastId"] = last'.id
              /\ IF isStr(given) \/ (isNum(given) /\ ~isNaN(given))
                 THEN last'.id = given
                 ELSE Fresh(last'.id)
      ]_vars

\* C7 witness: a call with toastId '' has returned '', stamped on the entry
\* it queued.
C7_Witness ==
    /\ inp # None
    /\ AndGet(inp.mo, "toastId") = "str:"
    /\ Len(queue) > 0
    /\ last.id = "str:"
    /\ queue[Len(queue)].options["toastId"] = "str:"

\* the type a call of this kind gives when the caller names none
KindType(kind) == IF kind = "toast" THEN TYPE_DEFAULT ELSE ShortcutType(kind)

\* C8: the options a show call dispatches carry the caller's type when the
\* caller gives one, else DEFAULT for toast and the shortcut's own type for a
\* shortcut; they own the caller's keys plus type and toastId, and every
\* other caller option has the caller's value.
C8_TypeAndPassThrough ==
    [][ last'.op \in {"toast", "shortcut"} =>
          LET given == SpreadOpt(inp.mo)
              sent == Dispatched'.options
          IN  /\ sent["type"] = IF "type" \in DOMAIN given THEN given["type"]
                                 ELSE KindType(inp.kind)
              /\ DOMAIN sent = DOMAIN given \cup {"type", "toastId"}
              /\ \A k \in DOMAIN given \ {"type", "toastId"} :
                    sent[k] = given[k]
              /\ Dispatched'.content = inp.content
      ]_vars

\* C8 witness: error(content, {type: 'info', autoClose: 1}) has dispatched
\* type info and autoClose 1.
C8_Witness ==
    /\ inp # None
    /\ inp.kind = "error"
    /\ AndGet(inp.mo, "type") = "str:info"
    /\ Len(queue) > 0
    /\ queue[1].options["type"] = "str:info"
    /\ Get(queue[1].options, "autoClose") = "num:1"

-----------------------------------------------------------------------------
(* The lifecycle of one notification *)

\* how long a run of the lifecycle is followed
MaxTime == 5

\* the autoClose durations rendered; 0 stands for autoClose: false
Durations == {0, 2, 3}

ToastInit ==
    /\ CoreInit
    /\ PureIdle
    /\ tprops \in [autoClose : Durations, pauseOnHover : BOOLEAN,
                   pauseOnFocusLoss : BOOLEAN, progress : {Undefined}]
    /\ tstate = IF tprops.autoClose = 0 THEN "Inert" ELSE "Running"
    /\ hovered = FALSE
    /\ blurred = FALSE
    /\ now = 0
    /\ unpaused = 0

\* pauseToast
pauseToast(state) == IF state = "Running" THEN "Paused" ELSE state

\* playToast
playToast(state) == IF state = "Paused" THEN "Running" ELSE state

\* a pointer enter that pauses whatever pauseOnHover says
MouseEnter_AlwaysPauses ==
    /\ ~hovered
    /\ hovered' = TRUE
    /\ tstate' = pauseToast(tstate)
    /\ UNCHANGED <<tprops, blurred, now, unpaused>>
    /\ UNCHANGED <<coreVars, drainVars, pureVars>>

\* the pointer enters: the countdown pauses when pauseOnHover is enabled
MouseEnter ==
    /\ ~hovered
    /\ hovered' = TRUE
    /\ tstate' = IF tprops.pauseOnHover THEN pauseToast(tstate) ELSE tstate
    /\ UNCHANGED <<tprops, blurred, now, unpaused>>
    /\ UNCHANGED <<coreVars, drainVars, pureVars>>

\* the pointer leaves: the countdown resumes
MouseLeave ==
    /\ hovered
    /\ hovered' = FALSE
    /\ tstate' = IF tprops.pauseOnHover THEN playToast(tstate) ELSE tstate
    /\ UNCHANGED <<tprops, blurred, now, unpaused>>
    /\ UNCHANGED <<coreVars, drainVars, pureVars>>

\* the window loses focus: the countdown pauses when pauseOnFocusLoss is enabled
WindowBlur ==
    /\ ~blurred
    /\ blurred' = TRUE
    /\ tstate' = IF tprops.pauseOnFocusLoss THEN pauseToast(tstate) ELSE tstate
    /\ UNCHANGED <<tprops, hovered, now, unpaused>>
    /\ UNCHANGED <<coreVars, drainVars, pureVars>>

\* the window gains focus: the countdown resumes
WindowFocus ==
    /\ blurred
    /\ blurred' = FALSE
    /\ tstate' = IF tprops.pauseOnFocusLoss THEN playToast(tstate) ELSE tstate
    /\ UNCHANGED <<tprops, hovered, now, unpaused>>
    /\ UNCHANGED <<coreVars, drainVars, pureVars>>

\* a countdown that counts the time spent paused as well
countdownComplete_WallClock == tstate = "Running" /\ now >= tprops.autoClose

\* whether the progress bar animation has run its whole duration
countdownComplete == tstate = "Running" /\ unpaused >= tprops.autoClose

\* one time unit passes; the countdown advances only while running
TimePasses ==
    /\ now < MaxTime
    /\ ~countdownComplete
    /\ now' = now + 1
    /\ unpaused' = IF tstate = "Running" THEN unpaused + 1 ELSE unpaused
    /\ UNCHANGED <<tprops, tstate, hovered, blurred>>
    /\ UNCHANGED <<coreVars, drainVars, pureVars>>

\* the progress bar's animation ends: closeToast is called
AnimationEnd ==
    /\ countdownComplete
    /\ tstate' = "Closing"
    /\ UNCHANGED <<tprops, hovered, blurred, now, unpaused>>
    /\ UNCHANGED <<coreVars, drainVars, pureVars>>

\* the exit transition ends: the record leaves the collection
Exited ==
    /\ tstate = "Closing"
    /\ tstate' = "Closed"
    /\ UNCHANGED <<tprops, hovered, blurred, now, unpaused>>
    /\ UNCHANGED <<coreVars, drainVars, pureVars>>

ToastNext ==
    \/ MouseEnter
    \/ MouseLeave
    \/ WindowBlur
    \/ WindowFocus
    \/ TimePasses
    \/ AnimationEnd
    \/ Exited

SpecToast == ToastInit /\ [][ToastNext]_vars

\* C9: a running countdown pauses on pointer enter when pauseOnHover is
\* enabled and stays running when it is disabled, and pauses on window blur
\* when pauseOnFocusLoss is enabled; a countdown paused by the pointer runs
\* again on pointer leave, and one paused by a blur runs again on focus.
C9_PauseAndResume ==
    [][ /\ (tstate = "Running" /\ ~hovered /\ hovered') =>
              tstate' = IF tprops.pauseOnHover THEN "Paused" ELSE "Running"
        /\ (tstate = "Running" /\ ~blurred /\ blurred') =>
              tstate' = IF tprops.pauseOnFocusLoss THEN "Paused" ELSE "Running"
        /\ (tstate = "Paused" /\ tprops.pauseOnHover /\ hovered /\ ~hovered') =>
              tstate' = "Running"
        /\ (tstate = "Paused" /\ tprops.pauseOnFocusLoss /\ blurred /\ ~blurred') =>
              tstate' = "Running"
      ]_vars

\* C9 witness: a countdown that was paused has resumed and is running again
\* with time still to go, the pointer away and the window focused.
C9_Witness ==
    /\ tstate = "Running"
    /\ tprops.pauseOnHover
    /\ tprops.autoClose = 3
    /\ ~hovered /\ ~blurred
    /\ now = 2
    /\ unpaused = 1

-----------------------------------------------------------------------------
(* The lifecycle of one notification with a controlled progress bar *)

\* the progress values a record is rendered with; Undefined is no progress
\* option, "num:0.3" the value 0.3
RenderedProgress == {Undefined, "num:0.3"}

\* whether the progress bar is driven by the caller
isControlled(props) == props.progress \in {"num:0.3", "num:1"}

\* a record whose countdown starts whatever its progress option says
initialState_IgnoresProgress(props) ==
    IF props.autoClose = 0 THEN "Inert" ELSE "Running"

\* the state a record is rendered in: the countdown runs unless autoClose is
\* disabled or the progress is controlled
initialState(props) ==
    IF props.autoClose = 0 \/ isControlled(props) THEN "Inert" ELSE "Running"

ProgressInit ==
    /\ CoreInit
    /\ PureIdle
    /\ tprops \in [autoClose : Durations, pauseOnHover : BOOLEAN,
                   pauseOnFocusLoss : BOOLEAN, progress : RenderedProgress]
    /\ tstate = initialState(tprops)
    /\ hovered = FALSE
    /\ blurred = FALSE
    /\ now = 0
    /\ unpaused = 0

\* the options toast.done passes to toast.update
doneOptions == "progress" :> "num:1"

\* the record is re-rendered with the options the deferred callback of
\* toast.done(id) dispatches: the progress becomes 1 and the countdown, if
\* one was running, is suppressed
DoneDispatched ==
    /\ tstate \in {"Inert", "Running", "Paused"}
    /\ tprops.progress # "num:1"
    /\ tprops' = [tprops EXCEPT !.progress =
                     nextOptionsOf("toastId" :> "str:a" @@
                                   "progress" :> tprops.progress,
                                   "str:a", doneOptions)["progress"]]
    /\ tstate' = initialState(tprops')
    /\ UNCHANGED <<hovered, blurred, now, unpaused>>
    /\ UNCHANGED <<coreVars, drainVars, pureVars>>

\* whether a controlled progress bar has reached its end
progressComplete ==
    /\ tstate \in {"Inert", "Running", "Paused"}
    /\ isControlled(tprops)
    /\ tprops.progress = "num:1"

\* the transition of a controlled progress bar ends: closeToast is called
\* when the progress is complete
TransitionEnd ==
    /\ progressComplete
    /\ tstate' = "Closing"
    /\ UNCHANGED <<tprops, hovered, blurred, now, unpaused>>
    /\ UNCHANGED <<coreVars, drainVars, pureVars>>

ProgressNext ==
    \/ ToastNext
    \/ DoneDispatched
    \/ TransitionEnd

\* the progress bar's transition runs to its end once the progress is complete
SpecProgress ==
    ProgressInit /\ [][ProgressNext]_vars /\ WF_vars(TransitionEnd)

-----------------------------------------------------------------------------
(* Properties of the registry *)

\* the registry is non-empty exactly when a surface is mounted
RegistryTracksMounted == isAnyContainerMounted <=> mounted # {}

\* C12: the registry is empty before any surface mounts, and every mount and
\* every unmount of a surface, whatever identifier the surface has, leaves
\* the registry non-empty if and only if some surface is mounted.
C12_RegistryNonEmptyIffMounted ==
    [][ (last'.op \in {"mount", "unmount"} /\ RegistryTracksMounted)
           => RegistryTracksMounted' ]_vars

\* the surfaces the registry holds
Registered == {containers[k] : k \in DOMAIN containers}

\* C13: getContainer() without an identifier returns null when the registry
\* is empty and otherwise the handle of a surface that is still in the
\* registry, also after the most recently mounted surface has unmounted while
\* others remain.
C13_LookupReturnsRegisteredLatest ==
    /\ ~isAnyContainerMounted => getContainer(Undefined) = Null
    /\ isAnyContainerMounted => getContainer(Undefined) \in Registered

\* the registry without the entries that hold the surface s
WithoutEntriesOf(m, s) == [k \in {x \in DOMAIN m : m[x] # s} |-> m[k]]

\* C14: a WILL_UNMOUNT that carries a surface removes that surface's entry
\* from the registry and leaves every other entry as it was; one that carries
\* none empties the registry.  The show and clear listeners are all detached
\* when the registry is empty afterwards, and those of the other surfaces
\* stay attached while an entry remains.
C14_UnmountRemovesOnlyItsEntry ==
    [][ /\ last'.op = "unmount" =>
              \A s \in mounted \ mounted' :
                 /\ containers' = WithoutEntriesOf(containers, s)
                 /\ subscribed' = IF DOMAIN containers' = {} THEN {}
                                  ELSE subscribed \ {s}
        /\ last'.op = "unmountAll" =>
              /\ containers' = EmptyMap
              /\ subscribed' = {}
      ]_vars

-----------------------------------------------------------------------------
(* Properties of the dispatch path *)

\* C15: the pending queue is non-empty only while the registry is empty.  A
\* show call made with a surface registered emits one 'show' with the
\* identifier it returns and leaves the queue alone; a show call made with
\* the registry empty, also after every surface has unmounted, is appended to
\* the queue; the next mount emits the queue in order and empties it.
C15_QueueOnlyWhileRegistryEmpty ==
    /\ [](queue # <<>> => ~isAnyContainerMounted)
    /\ [][ /\ (last'.op \in {"toast", "shortcut"} /\ isAnyContainerMounted) =>
                 /\ queue' = queue
                 /\ Len(emitted') = 1
                 /\ emitted'[1].action = "show"
                 /\ emitted'[1].options["toastId"] = last'.id
                 /\ emitted'[1].to = subscribed
           /\ (last'.op \in {"toast", "shortcut"} /\ ~isAnyContainerMounted) =>
                 /\ emitted' = <<>>
                 /\ Len(queue') = Len(queue) + 1
                 /\ SubSeq(queue', 1, Len(queue)) = queue
                 /\ queue'[Len(queue')].options["toastId"] = last'.id
           /\ last'.op = "mount" =>
                 /\ queue' = <<>>
                 /\ Len(emitted') = Len(queue)
                 /\ \A i \in 1..Len(queue) :
                       /\ emitted'[i].content = queue[i].content
                       /\ emitted'[i].options = queue[i].options
         ]_vars

\* C15 witness: after surface S3 has mounted and unmounted, two show calls
\* wait in the queue, in call order, for the next mount.
C15_Witness ==
    /\ last.op = "shortcut"
    /\ latestInstance = "S3"
    /\ mounted = {}
    /\ ~isAnyContainerMounted
    /\ Len(queue) = 2
    /\ queue[1].options["toastId"] = "str:a"
    /\ queue[2].options["toastId"] = "str:b"

-----------------------------------------------------------------------------
(* Properties of the lazy mount *)

\* C16: configure arms the lazy mount.  A show call made with the registry
\* empty and the lazy mount armed consumes the flag and creates the default
\* surface: a container node is attached and the surface rendered into it is
\* registered.  A show call made with the registry empty and the flag not
\* armed, be it consumed or never set, only appends to the queue: it creates
\* no node and no surface.
C16_LazyMountOneShot ==
    [][ /\ last'.op = "configure" => lazy'
        /\ (last'.op \in {"toast", "shortcut"} /\ ~isAnyContainerMounted /\ lazy) =>
              /\ ~lazy'
              /\ containerDomNode' # containerDomNode
              /\ containerDomNode' \in bodyChildren'
              /\ isAnyContainerMounted'
        /\ (last'.op \in {"toast", "shortcut"} /\ ~isAnyContainerMounted /\ ~lazy) =>
              /\ ~lazy'
              /\ Len(queue') = Len(queue) + 1
              /\ UNCHANGED <<containerDomNode, bodyChildren, containers,
                             mounted>>
      ]_vars

-----------------------------------------------------------------------------
(* Chains of updates of one record *)

\* the update calls of a chain: in place, with new content, and moving the
\* record from 'a' to 'b'
ChainUpdateCalls ==
    { <<"str:a", None>>,
      <<"str:a", Some("toastId" :> "str:b")>>,
      <<"str:a", Some("render" :> "yo")>>,
      <<"str:b", None>>,
      <<"str:b", Some("render" :> "yo")>> }

\* the state after surface S3 has mounted and toast('hi', {toastId: 'a'})
\* has been emitted to it; the calls of the run are counted from here
ChainInit ==
    /\ containers = MapSet(EmptyMap, RegistryKey("S3"), "S3")
    /\ latestInstance = RegistryKey("S3")
    /\ containerDomNode = 0
    /\ containerConfig = EmptyObj
    /\ queue = <<>>
    /\ lazy = FALSE
    /\ nextGen = 0
    /\ timers = <<>>
    /\ bodyChildren = {}
    /\ mounted = {"S3"}
    /\ subscribed = {"S3"}
    /\ collection =
          Deliver([s \in Surfaces |-> EmptyMap],
                  ShowEvent("hi", toastOptions(Some("toastId" :> "str:a")),
                            {"S3"}))
    /\ emitted = <<ShowEvent("hi", toastOptions(Some("toastId" :> "str:a")),
                             {"S3"})>>
    /\ threw = FALSE
    /\ ncalls = 0
    /\ last = Step("toast", "str:a")
    /\ DrainIdle
    /\ PureIdle
    /\ ToastIdle

ChainNext ==
    \/ \E s \in Surfaces : Mount(s)
    \/ \E s \in Surfaces : Unmount(s)
    \/ \E id \in DismissIds : Dismiss(id)
    \/ \E u \in ChainUpdateCalls : Update(u[1], u[2])
    \/ Tick

SpecChain == ChainInit /\ [][ChainNext]_vars

\* the options without the markers update stamps
WithoutMarkers(o) == Delete(Delete(o, "updateId"), "staleToastId")

\* C17: when the deferred callback of update(id, options) finds the record,
\* it emits one 'show' whose options are the old options overlaid by the new
\* ones, without the render key, with toastId the target (options.toastId if
\* given, else id) and with exactly one marker: a fresh updateId when the
\* target is id, staleToastId = id otherwise; its content is options.render
\* if given and the old content otherwise.  This holds for every update of a
\* chain of updates of one record.
C17_UpdateDispatchesMergedOptions ==
    [][ (last'.op = "tick" /\ timers # <<>>
            /\ getToast(Head(timers).toastId, Head(timers).options) # None) =>
          \A id \in {Head(timers).toastId} :
          \A options \in {Head(timers).options} :
          \A found \in {getToast(id, options)[1]} :
          \A target \in {IF "toastId" \in DOMAIN options
                         THEN options["toastId"] ELSE id} :
          \A fresh \in {generateToastId} :
             /\ Len(emitted') = 1
             /\ emitted'[1].action = "show"
             /\ WithoutMarkers(emitted'[1].options) =
                   WithoutMarkers(
                      Delete(Spread(Spread(found.options, options),
                                    "toastId" :> target), "render"))
             /\ IF target = id
                THEN /\ "staleToastId" \notin DOMAIN emitted'[1].options
                     /\ Get(emitted'[1].options, "updateId") = fresh
                ELSE /\ "updateId" \notin DOMAIN emitted'[1].options
                     /\ Get(emitted'[1].options, "staleToastId") = id
             /\ emitted'[1].content =
                   IF "render" \in DOMAIN options THEN options["render"]
                   ELSE found.content
      ]_vars

-----------------------------------------------------------------------------
(* Updates that find no record *)

\* the registry key update(id, options) selects: options.containerId, or the
\* latest surface when none is given
SelectedKey(options) ==
    IF Truthy(Get(options, "containerId")) THEN options["containerId"]
    ELSE latestInstance

\* no surface is registered, or the selected surface holds no record id
NoRecordFor(id, options) ==
    \/ DOMAIN containers = {}
    \/ SelectedKey(options) \notin DOMAIN containers
    \/ ToKey(id) \notin DOMAIN collection[containers[SelectedKey(options)]]

\* C18: when the deferred callback of update(id, options) runs and the
\* surface selected by options.containerId, or the latest surface when none
\* is given, holds no record id, or no surface is registered, the callback
\* does nothing: it emits no event, queues nothing, changes no collection,
\* allocates no identifier and raises no error.
C18_UpdateOfAbsentIsNoOp ==
    [][ (last'.op = "tick" /\ timers # <<>>
            /\ NoRecordFor(Head(timers).toastId, Head(timers).options)) =>
          /\ emitted' = <<>>
          /\ ~threw'
          /\ timers' = Tail(timers)
          /\ UNCHANGED <<queue, collection, nextGen, containers,
                         latestInstance, lazy, containerDomNode, bodyChildren,
                         subscribed>>
      ]_vars

\* C18 witness: with surface S3 registered and holding record 'a', the
\* callback of an update that found no record has run and emitted nothing.
C18_Witness ==
    /\ last.op = "tick"
    /\ emitted = <<>>
    /\ timers = <<>>
    /\ DOMAIN containers = {"S3"}
    /\ latestInstance = "S3"
    /\ DOMAIN collection["S3"] = {"a"}
    /\ queue = <<>>
    /\ ~threw

-----------------------------------------------------------------------------
(* The replay of the queue, emit by emit, with listeners that call back *)

\* DID_MOUNT, lines 285-288: the surface is registered and queue.forEach
\* starts; forEach visits the entries the queue holds now
DrainBegin(s) ==
    /\ drainPos = 0
    /\ s \notin mounted
    /\ mounted' = mounted \cup {s}
    /\ subscribed' = subscribed \cup {s}
    /\ latestInstance' = RegistryKey(s)
    /\ containers' = MapSet(containers, RegistryKey(s), s)
    /\ drainPos' = 1
    /\ drainLen' = Len(queue)
    /\ inListener' = FALSE
    /\ emitted' = <<>>
    /\ threw' = FALSE
    /\ last' = Step("didMount", Undefined)
    /\ UNCHANGED <<containerDomNode, containerConfig, queue, lazy, nextGen,
                   timers, bodyChildren, collection, ncalls>>
    /\ UNCHANGED <<pureVars, toastVars>>

\* one iteration of forEach: the entry is emitted to the listeners that are
\* on the bus now; a listener that was called may call back before it returns
DrainStep ==
    /\ drainPos \in 1..drainLen
    /\ emitted' = Replay(<<queue[drainPos]>>, subscribed)
    /\ collection' = DeliverAll(collection, Replay(<<queue[drainPos]>>, subscribed))
    /\ drainPos' = drainPos + 1
    /\ inListener' = (subscribed # {})
    /\ threw' = FALSE
    /\ last' = Step("emit", queue[drainPos].options["toastId"])
    /\ UNCHANGED <<containers, latestInstance, containerDomNode,
                   containerConfig, queue, lazy, nextGen, timers, bodyChildren,
                   mounted, subscribed, ncalls, drainLen>>
    /\ UNCHANGED <<pureVars, toastVars>>

\* forEach has visited its entries: queue = [], line 292
DrainEnd ==
    /\ drainPos # 0
    /\ drainPos = drainLen + 1
    /\ queue' = <<>>
    /\ drainPos' = 0
    /\ drainLen' = 0
    /\ inListener' = FALSE
    /\ emitted' = <<>>
    /\ threw' = FALSE
    /\ last' = Step("drained", Undefined)
    /\ UNCHANGED <<containers, latestInstance, containerDomNode,
                   containerConfig, lazy, nextGen, timers, bodyChildren,
                   mounted, subscribed, collection, ncalls>>
    /\ UNCHANGED <<pureVars, toastVars>>

\* code outside the replay runs between events; during the replay only a
\* listener that an emit has called can run
Callable == drainPos = 0 \/ inListener

DrainNext ==
    \/ \E s \in Surfaces : DrainBegin(s)
    \/ DrainStep
    \/ DrainEnd
    \/ Callable /\ \E c \in Contents, mo \in ShowOptions : Toast(c, mo)
    \/ Callable /\ \E n \in CalledShortcuts, c \in Contents,
                      mo \in ShortcutOptions : Shortcut(n, c, mo)
    \/ Callable /\ \E id \in DismissIds : Dismiss(id)
    \/ Callable /\ \E s \in Surfaces : Unmount(s)

SpecDrain == Init /\ [][DrainNext]_vars

\* C19: the replay is safe when a listener called during it calls show or
\* dismiss or makes a surface unmount.  It ends: forEach visits the entries
\* queued before the mount and can always take its next step.  Each of those
\* entries is emitted once, in order.  And the reset of the queue at the end
\* drops nothing that was not replayed: the queue then holds only the entries
\* forEach visited, so no show issued during the replay is lost unemitted.
C19_DrainSafeUnderReentrancy ==
    /\ [](drainPos # 0 =>
             /\ drainPos \in 1..(drainLen + 1)
             /\ drainLen <= Len(queue)
             /\ ENABLED (DrainStep \/ DrainEnd))
    /\ [][ (drainPos # 0 /\ drainPos' = drainPos + 1) =>
              /\ Len(emitted') = 1
              /\ emitted'[1].content = queue[drainPos].content
              /\ emitted'[1].options = queue[drainPos].options
              /\ queue' = queue ]_vars
    /\ [][ (drainPos # 0 /\ drainPos' = 0) => Len(queue) = drainLen ]_vars

-----------------------------------------------------------------------------
(* Properties of the lazily created container node *)

\* C20: at most one lazily created container node is attached to the
\* document at a time, and no WILL_UNMOUNT calls removeChild for a node that
\* is no longer attached, which raises: a node is removed once.
C20_OneLazyNodeRemovedOnce ==
    /\ Cardinality(bodyChildren) <= 1
    /\ ~threw
    /\ bodyChildren \subseteq {containerDomNode}

====
